---- MODULE Spec2Model ----
(***************************************************************************)
(* Model of the Lateralization Lab Statistical Reporter (src/app/page.tsx, *)
(* component Page, and the statistics functions it calls).                 *)
(*                                                                         *)
(* JavaScript numbers are modelled as binary floating-point values with a  *)
(* mantissa of MantBits bits (IEEE-754 doubles have 53): NaN, +Infinity,   *)
(* -Infinity and the finite values s * m * 2^e.  The special values, the   *)
(* comparisons and the propagation rules are those of IEEE-754; finite     *)
(* results are rounded to MantBits bits instead of 53.  Signed zero is not *)
(* distinguished (every zero is +0).                                       *)
(***************************************************************************)
EXTENDS Integers, Sequences, FiniteSets, TLC

\* ------------------------------------------------------------------------
\* Bounds of the model
\* ------------------------------------------------------------------------
\* half the number of mantissa bits of a modelled number
HalfBits == 12
\* FileReader loads that may be in flight at the same time
MaxPending == 2

\* ------------------------------------------------------------------------
\* JavaScript numbers
\* ------------------------------------------------------------------------
MantBits == 2 * HalfBits
PH == 2^HalfBits
P2 == 2^MantBits
PHalf == 2^(MantBits - 1)
\* bits handled by one step of a long division, guard bits of an addition
ChunkBits == 30 - MantBits
GuardBits == 28 - MantBits

NaN == [k |-> "nan", s |-> 1, m |-> 0, e |-> 0]
Inf(sg) == [k |-> "inf", s |-> sg, m |-> 0, e |-> 0]
Zero == [k |-> "fin", s |-> 1, m |-> 0, e |-> 0]

IsNaN(x) == x.k = "nan"
IsInf(x) == x.k = "inf"
IsFin(x) == x.k = "fin"
IsZero(x) == x.k = "fin" /\ x.m = 0

\* the modelled numbers
Num == [k : {"nan", "inf", "fin"}, s : {-1, 1}, m : Nat, e : Int]

\* number of binary digits of a natural number below 2^31
BitLen(n) ==
  LET a == IF n >= 65536 THEN 16 ELSE 0
      n1 == n \div 2^a
      b == IF n1 >= 256 THEN 8 ELSE 0
      n2 == n1 \div 2^b
      c == IF n2 >= 16 THEN 4 ELSE 0
      n3 == n2 \div 2^c
      d == IF n3 >= 4 THEN 2 ELSE 0
      n4 == n3 \div 2^d
      f == IF n4 >= 2 THEN 2 ELSE n4
  IN a + b + c + d + f

\* a finite value with overflow to Infinity and underflow to zero at the
\* exponent range of a double
Pack(sg, m, e) ==
  IF e + MantBits > 1024 THEN Inf(sg)
  ELSE IF e + MantBits < -1073 THEN Zero
  ELSE [k |-> "fin", s |-> sg, m |-> m, e |-> e]

\* sg * n * 2^e rounded to nearest, ties to even, on MantBits bits (n below
\* 2^30)
Norm(sg, n, e) ==
  IF n = 0 THEN Zero
  ELSE LET L == BitLen(n) IN
       IF L <= MantBits
       THEN Pack(sg, n * 2^(MantBits - L), e - (MantBits - L))
       ELSE LET sh == L - MantBits
                half == 2^(sh - 1)
                rem == n % 2^sh
                dn == n \div 2^sh
                q == IF rem > half \/ (rem = half /\ dn % 2 = 1)
                     THEN dn + 1 ELSE dn
            IN IF q = P2 THEN Pack(sg, PHalf, e + sh + 1)
                         ELSE Pack(sg, q, e + sh)

FromInt(i) == IF i < 0 THEN Norm(-1, -i, 0) ELSE Norm(1, i, 0)
One == FromInt(1)
Two == FromInt(2)
Ten == FromInt(10)

Neg[x \in Num] == IF IsNaN(x) \/ IsZero(x) THEN x ELSE [x EXCEPT !.s = -x.s]
Abs[x \in Num] == IF IsNaN(x) THEN x ELSE [x EXCEPT !.s = 1]
Sgn(x) == IF IsNaN(x) \/ IsZero(x) THEN 0 ELSE x.s

\* the product m1 * m2 of two mantissas, by half-words, in units of
\* 2^(MantBits-3): its leading bits, two bits more, and a last bit that is
\* set when any lower bit of the product is
MulMant(m1, m2) ==
  LET a1 == m1 \div PH
      b1 == m1 % PH
      a2 == m2 \div PH
      b2 == m2 % PH
      cross == a1 * b2 + b1 * a2
      low == (cross % PH) * PH + b1 * b2
      high == a1 * a2 + cross \div PH + low \div P2
      lowrem == low % P2
      cut == 2^(MantBits - 2)
  IN high * 8 + (lowrem \div cut) * 2 + (IF lowrem % cut = 0 THEN 0 ELSE 1)

Mul[x \in Num, y \in Num] ==
  IF IsNaN(x) \/ IsNaN(y) THEN NaN
  ELSE IF IsInf(x) \/ IsInf(y)
       THEN IF IsZero(x) \/ IsZero(y) THEN NaN ELSE Inf(x.s * y.s)
  ELSE IF IsZero(x) \/ IsZero(y) THEN Zero
  ELSE Norm(x.s * y.s, MulMant(x.m, y.m), x.e + y.e + MantBits - 3)

\* long division: with q the quotient so far and r < d the remainder so
\* far, the quotient and the remainder after bits more binary digits
DivBits[r \in Nat, d \in Nat, bits \in Nat, q \in Nat] ==
  IF bits = 0 THEN <<q, r>>
  ELSE LET kb == IF bits < ChunkBits THEN bits ELSE ChunkBits
           t == r * 2^kb
       IN DivBits[t % d, d, bits - kb, q * 2^kb + t \div d]

Div[x \in Num, y \in Num] ==
  IF IsNaN(x) \/ IsNaN(y) THEN NaN
  ELSE IF IsInf(x) THEN (IF IsInf(y) THEN NaN ELSE Inf(x.s * y.s))
  ELSE IF IsInf(y) THEN Zero
  ELSE IF IsZero(y) THEN (IF IsZero(x) THEN NaN ELSE Inf(x.s))
  ELSE IF IsZero(x) THEN Zero
  ELSE LET qr == DivBits[x.m % y.m, y.m, MantBits + 1, x.m \div y.m]
       IN Norm(x.s * y.s, 2 * qr[1] + (IF qr[2] = 0 THEN 0 ELSE 1),
               x.e - y.e - (MantBits + 2))

AddFin(hi, lo) ==
  LET d == hi.e - lo.e IN
  IF d > MantBits + 1 THEN hi
  ELSE LET g == IF d < GuardBits THEN d ELSE GuardBits
           cut == 2^(d - g)
           low == 2 * (lo.m \div cut) + (IF lo.m % cut = 0 THEN 0 ELSE 1)
           v == hi.s * hi.m * 2^(g + 1) + lo.s * low
       IN IF v < 0 THEN Norm(-1, -v, hi.e - g - 1)
                   ELSE Norm(1, v, hi.e - g - 1)

Add[x \in Num, y \in Num] ==
  IF IsNaN(x) \/ IsNaN(y) THEN NaN
  ELSE IF IsInf(x) THEN (IF IsInf(y) /\ y.s # x.s THEN NaN ELSE x)
  ELSE IF IsInf(y) THEN y
  ELSE IF IsZero(x) THEN y
  ELSE IF IsZero(y) THEN x
  ELSE IF x.e >= y.e THEN AddFin(x, y) ELSE AddFin(y, x)

Sub[x \in Num, y \in Num] == Add[x, Neg[y]]

\* x < y, x >= y, x === y of JavaScript: false whenever an operand is NaN
Lt[x \in Num, y \in Num] == ~IsNaN(x) /\ ~IsNaN(y) /\ x # y /\ Sgn(Sub[x, y]) < 0
Ge[x \in Num, y \in Num] == ~IsNaN(x) /\ ~IsNaN(y) /\ (x = y \/ Sgn(Sub[x, y]) > 0)
Eq[x \in Num, y \in Num] == ~IsNaN(x) /\ ~IsNaN(y) /\ x = y

IsFinite(x) == IsFin(x)

MathMax[x \in Num, y \in Num] == IF IsNaN(x) \/ IsNaN(y) THEN NaN ELSE IF Lt[x, y] THEN y ELSE x
MathMin[x \in Num, y \in Num] == IF IsNaN(x) \/ IsNaN(y) THEN NaN ELSE IF Lt[y, x] THEN y ELSE x

RECURSIVE ISqrt(_, _, _)
\* largest r in lo..hi with r*r <= n
ISqrt(n, lo, hi) ==
  IF lo >= hi THEN lo
  ELSE LET mid == (lo + hi + 1) \div 2
       IN IF mid * mid <= n THEN ISqrt(n, mid, hi) ELSE ISqrt(n, lo, mid - 1)

\* Math.sqrt: an integer square root of the leading bits, refined by two
\* Newton steps
MathSqrt[x \in Num] ==
  IF IsNaN(x) THEN NaN
  ELSE IF IsZero(x) THEN Zero
  ELSE IF x.s < 0 THEN NaN
  ELSE IF IsInf(x) THEN x
  ELSE LET top == x.m \div 2^(MantBits - 14)
           et == x.e + MantBits - 14
           kk == IF (et - 16) % 2 = 0 THEN 16 ELSE 15
           y0 == Norm(1, ISqrt(top * 2^kk, 0, 46340), (et - kk) \div 2)
           y1 == Mul[Norm(1, 1, -1), Add[y0, Div[x, y0]]]
       IN Mul[Norm(1, 1, -1), Add[y1, Div[x, y1]]]

\* the decimal literal n * 10^x for integers n and x
RECURSIVE Sci(_, _)
Sci(n, x) ==
  IF x >= 0 THEN (IF x = 0 THEN FromInt(n) ELSE Mul[Sci(n, x - 1), Ten])
  ELSE IF x >= -9 THEN Div[FromInt(n), FromInt(10^(-x))]
  ELSE Div[Sci(n, x + 9), FromInt(10^9)]

Ln2 == Sci(693147181, -9)
Pi == Sci(314159265, -8)

\* the mantissa of sqrt(1/2)
SqrtHalfMant == Sci(707106781, -9).m

\* the integer nearest to a finite x of moderate size
RoundInt(x) ==
  IF IsZero(x) THEN 0
  ELSE IF x.e >= 0 THEN x.s * x.m * 2^(x.e)
  ELSE IF -x.e > MantBits + 1 THEN 0
  ELSE x.s * ((x.m + 2^(-x.e - 1)) \div 2^(-x.e))

\* 1/(2k+1) + z2 * (1/(2k+3) + z2 * (...)) with the terms up to k = 6, the
\* terms k + 1, ... already summed in acc
AtanhSer[z2 \in Num, k \in Int, acc \in Num] ==
  IF k < 0 THEN acc
  ELSE AtanhSer[z2, k - 1, Add[Div[One, FromInt(2 * k + 1)], Mul[z2, acc]]]

\* Math.log: log(f * 2^kx) = kx * ln 2 + 2 * atanh((f - 1) / (f + 1))
MathLog[x \in Num] ==
  IF IsNaN(x) THEN NaN
  ELSE IF IsZero(x) THEN Inf(-1)
  ELSE IF x.s < 0 THEN NaN
  ELSE IF IsInf(x) THEN x
  ELSE LET small == x.m < SqrtHalfMant
           kx == IF small THEN x.e + MantBits - 1 ELSE x.e + MantBits
           f == [k |-> "fin", s |-> 1, m |-> x.m, e |-> x.e - kx]
           z == Div[Sub[f, One], Add[f, One]]
       IN Add[Mul[FromInt(kx), Ln2],
              Mul[Two, Mul[z, AtanhSer[Mul[z, z], 6, Zero]]]]

\* 1 + r/n * (1 + r/(n+1) * (...)) with the terms up to n = 11, the terms
\* n + 1, ... already summed in acc
ExpSer[r \in Num, n \in Nat, acc \in Num] ==
  IF n = 0 THEN acc
  ELSE ExpSer[r, n - 1, Add[One, Mul[Div[r, FromInt(n)], acc]]]

\* Math.exp: exp(kx * ln 2 + r) = 2^kx * exp(r)
MathExp[x \in Num] ==
  IF IsNaN(x) THEN NaN
  ELSE IF IsInf(x) THEN (IF x.s > 0 THEN x ELSE Zero)
  ELSE IF Lt[FromInt(710), x] THEN Inf(1)
  ELSE IF Lt[x, FromInt(-746)] THEN Zero
  ELSE LET kx == RoundInt(Div[x, Ln2])
           ser == ExpSer[Sub[x, Mul[FromInt(kx), Ln2]], 11, One]
       IN Pack(1, ser.m, ser.e + kx)

\* 1 - r2/(2n(2n+1)) * (1 - r2/((2n+2)(2n+3)) * (...)) with the terms up
\* to n = 9, the terms n + 1, ... already summed in acc
SinSer[r2 \in Num, n \in Nat, acc \in Num] ==
  IF n = 0 THEN acc
  ELSE SinSer[r2, n - 1,
              Sub[One, Mul[Div[r2, FromInt(2 * n * (2 * n + 1))], acc]]]

\* Math.sin of a finite argument of moderate size
MathSin[x \in Num] ==
  IF ~IsFin(x) THEN NaN
  ELSE LET twoPi == Mul[Two, Pi]
           r0 == Sub[x, Mul[FromInt(RoundInt(Div[x, twoPi])), twoPi]]
           halfPi == Div[Pi, Two]
           r == IF Lt[halfPi, r0] THEN Sub[Pi, r0]
                ELSE IF Lt[r0, Neg[halfPi]] THEN Sub[Neg[Pi], r0]
                ELSE r0
       IN Mul[r, SinSer[Mul[r, r], 9, One]]

Half == Sci(5, -1)

\* ------------------------------------------------------------------------
\* Summary statistics
\* ------------------------------------------------------------------------
\* arr.reduce((a, b) => a + b, 0): the sum from element i on, added to acc
SumFrom[arr \in Seq(Num), i \in Nat, acc \in Num] ==
  IF i > Len(arr) THEN acc ELSE SumFrom[arr, i + 1, Add[acc, arr[i]]]

mean(arr) == Div[SumFrom[arr, 1, Zero], FromInt(Len(arr))]

\* arr.reduce((acc, v) => acc + (v - m) ** 2, 0) from element i on
SqDevFrom[arr \in Seq(Num), m \in Num, i \in Nat, acc \in Num] ==
  IF i > Len(arr) THEN acc
  ELSE SqDevFrom[arr, m, i + 1, Add[acc, Mul[Sub[arr[i], m], Sub[arr[i], m]]]]

varianceSample(arr) ==
  Div[SqDevFrom[arr, mean(arr), 1, Zero], FromInt(Len(arr) - 1)]

sd(arr) == MathSqrt[varianceSample(arr)]

summarize(arr) ==
  LET n == Len(arr)
      m == mean(arr)
      s == sd(arr)
      se == Div[s, MathSqrt[FromInt(n)]]
  IN [n |-> n, mean |-> m, sd |-> s, se |-> se]

clamp(x, lo, hi) == MathMax[lo, MathMin[hi, x]]

\* ------------------------------------------------------------------------
\* Student t CDF
\* ------------------------------------------------------------------------
LanczosP ==
  << Sci(676520368, -6), Sci(-125913922, -5), Sci(771323429, -6),
     Sci(-176615029, -6), Sci(125073433, -7), Sci(-138571095, -9),
     Sci(998436958, -14), Sci(150563274, -15) >>

\* for (i = 0; i < p.length; i++) x += p[i] / (z + i + 1), from round i on
LanczosSum[z \in Num, i \in Nat, x \in Num] ==
  IF i >= Len(LanczosP) THEN x
  ELSE LanczosSum[z, i + 1,
                  Add[x, Div[LanczosP[i + 1], Add[Add[z, FromInt(i)], One]]]]

RECURSIVE logGammaRun(_)
\* the value of logGamma(z) and the depth of its recursion
logGammaRun(z0) ==
  IF Lt[z0, Half]
  THEN LET inner == logGammaRun(Sub[One, z0])
       IN [ret |-> Sub[Sub[MathLog[Pi], MathLog[MathSin[Mul[Pi, z0]]]],
                       inner.ret],
           depth |-> inner.depth + 1]
  ELSE LET z == Sub[z0, One]
           x == LanczosSum[z, 0, Sci(999999999, -9)]
           t == Sub[Add[z, FromInt(Len(LanczosP))], Half]
       IN [ret |-> Add[Sub[Add[Mul[Half, MathLog[Mul[Two, Pi]]],
                               Mul[Add[z, Half], MathLog[t]]],
                           t],
                       MathLog[x]],
           depth |-> 0]

logGamma(z) == logGammaRun(z).ret

\* a loop bound twice as large
MaxIterDoubled == 2 * 200

MAX_ITER == 200
EPS == Sci(3, -12)
FPMIN == Sci(1, -30)

\* if (Math.abs(v) < FPMIN) v = FPMIN
Floor30[v \in Num] == IF Lt[Abs[v], FPMIN] THEN FPMIN ELSE v

\* one execution of the loop body of betacf: c, d, h and del after it
betacfBody(a, b, x, m, st) ==
  LET qab == Add[a, b]
      qap == Add[a, One]
      qam == Sub[a, One]
      fm == FromInt(m)
      m2 == FromInt(2 * m)
      aa1 == Div[Mul[Mul[fm, Sub[b, fm]], x],
                 Mul[Add[qam, m2], Add[a, m2]]]
      d1 == Div[One, Floor30[Add[One, Mul[aa1, st.d]]]]
      c1 == Floor30[Add[One, Div[aa1, st.c]]]
      h1 == Mul[st.h, Mul[d1, c1]]
      aa2 == Div[Mul[Mul[Neg[Add[a, fm]], Add[qab, fm]], x],
                 Mul[Add[a, m2], Add[qap, m2]]]
      d2 == Div[One, Floor30[Add[One, Mul[aa2, d1]]]]
      c2 == Floor30[Add[One, Div[aa2, c1]]]
      del == Mul[d2, c2]
  IN [c |-> c2, d |-> d2, h |-> Mul[h1, del], del |-> del]

\* c, d, h and del of the loop, the last round executed and whether it broke
LoopState == [c : Num, d : Num, h : Num, del : Num, iter : Nat, brk : BOOLEAN]

\* for (m = 1; m <= MAX_ITER; m++) { ...; if (|del - 1| < EPS) break }:
\* the rounds m .. m + 2^k - 1, the first half of them before the second
betacfLoop[a \in Num, b \in Num, x \in Num, k \in Nat, m \in Nat, st \in LoopState] ==
  IF st.brk \/ m > MAX_ITER THEN st
  ELSE IF k = 0
       THEN LET nxt == betacfBody(a, b, x, m, st)
            IN [c |-> nxt.c, d |-> nxt.d, h |-> nxt.h, del |-> nxt.del,
                iter |-> m, brk |-> Lt[Abs[Sub[nxt.del, One]], EPS]]
  ELSE betacfLoop[a, b, x, k - 1, m + 2^(k - 1),
                  betacfLoop[a, b, x, k - 1, m, st]]

\* the value of betacf(a, b, x) and the number of rounds of its loop
betacfRun(a, b, x) ==
  LET qab == Add[a, b]
      qap == Add[a, One]
      d == Div[One, Floor30[Sub[One, Div[Mul[qab, x], qap]]]]
      st == betacfLoop[a, b, x, BitLen(MAX_ITER), 1,
                       [c |-> One, d |-> d, h |-> d, del |-> Zero,
                        iter |-> 0, brk |-> FALSE]]
  IN [h |-> st.h, iter |-> st.iter]

betacf(a, b, x) == betacfRun(a, b, x).h

\* regIncompleteBeta without the early returns at x = 0 and x = 1
regIncompleteBetaNoEarlyReturn(a, b, x) ==
  LET xx == clamp(x, Zero, One)
      ex == MathExp[Add[Add[Sub[Sub[logGamma(Add[a, b]), logGamma(a)],
                                logGamma(b)],
                            Mul[a, MathLog[xx]]],
                        Mul[b, MathLog[Sub[One, xx]]]]]
      bt == IF IsNaN(ex) \/ IsZero(ex) THEN Zero ELSE ex
  IN IF Lt[xx, Div[Add[a, One], Add[Add[a, b], Two]]]
     THEN [ret |-> Div[Mul[bt, betacf(a, b, xx)], a],
           calls |-> {"logGamma", "betacf"}]
     ELSE [ret |-> Sub[One, Div[Mul[bt, betacf(b, a, Sub[One, xx])], b]],
           calls |-> {"logGamma", "betacf"}]

\* the value of regIncompleteBeta(a, b, x) and the functions it called
regIncompleteBetaRun(a, b, x) ==
  LET xx == clamp(x, Zero, One) IN
  IF Eq[xx, Zero] THEN [ret |-> Zero, calls |-> {}]
  ELSE IF Eq[xx, One] THEN [ret |-> One, calls |-> {}]
  ELSE LET ex == MathExp[Add[Add[Sub[Sub[logGamma(Add[a, b]), logGamma(a)],
                                     logGamma(b)],
                                 Mul[a, MathLog[xx]]],
                             Mul[b, MathLog[Sub[One, xx]]]]]
           bt == IF IsNaN(ex) \/ IsZero(ex) THEN Zero ELSE ex
       IN IF Lt[xx, Div[Add[a, One], Add[Add[a, b], Two]]]
          THEN [ret |-> Div[Mul[bt, betacf(a, b, xx)], a],
                calls |-> {"logGamma", "betacf"}]
          ELSE [ret |-> Sub[One, Div[Mul[bt, betacf(b, a, Sub[One, xx])], b]],
                calls |-> {"logGamma", "betacf"}]

regIncompleteBeta(a, b, x) == regIncompleteBetaRun(a, b, x).ret

\* studentTCdf with the whole incomplete beta as the lower tail
studentTCdfWholeTail(t, df) ==
  LET ib == regIncompleteBeta(Div[df, Two], Half, Div[df, Add[df, Mul[t, t]]])
  IN IF Ge[t, Zero] THEN Sub[One, Mul[Half, ib]] ELSE ib

studentTCdf(t, df) ==
  LET x == Div[df, Add[df, Mul[t, t]]]
      a == Div[df, Two]
      b == Half
      ib == regIncompleteBeta(a, b, x)
  IN IF Ge[t, Zero] THEN Sub[One, Mul[Half, ib]] ELSE Mul[Half, ib]

\* pTwoSidedFromT on t itself, not on |t|
pTwoSidedFromTSigned(t, df) ==
  clamp(Mul[Two, Sub[One, studentTCdf(t, df)]], Zero, One)

\* pTwoSidedFromT without the doubling of the upper tail
pTwoSidedFromTOneTail(t, df) ==
  clamp(Sub[One, studentTCdf(Abs[t], df)], Zero, One)

pTwoSidedFromT(t, df) ==
  LET cdf == studentTCdf(Abs[t], df)
  IN clamp(Mul[Two, Sub[One, cdf]], Zero, One)

\* ------------------------------------------------------------------------
\* Analyses
\* ------------------------------------------------------------------------
\* a.map((v, i) => v - b[i])
Diffs(a, b) == [i \in 1..Len(a) |-> Sub[a[i], b[i]]]

pairedTTest(a, b) ==
  LET s == summarize(Diffs(a, b))
      t == Div[s.mean, Div[s.sd, MathSqrt[FromInt(s.n)]]]
      df == FromInt(s.n - 1)
  IN [t |-> t, df |-> df, p |-> pTwoSidedFromT(t, df), d |-> Div[s.mean, s.sd]]

oneSampleT(arr, mu) ==
  LET s == summarize(arr)
      t == Div[Sub[s.mean, mu], Div[s.sd, MathSqrt[FromInt(s.n)]]]
      df == FromInt(s.n - 1)
  IN [t |-> t, df |-> df, p |-> pTwoSidedFromT(t, df),
      d |-> Div[Sub[s.mean, mu], s.sd], s |-> s]

\* welchTTest with the standard error taken from the summed variances over
\* the summed sizes, sqrt((va + vb) / (na + nb))
welchTTestSummedSizes(a, b) ==
  LET sa == summarize(a)
      sb == summarize(b)
      va == Mul[sa.sd, sa.sd]
      vb == Mul[sb.sd, sb.sd]
      na == FromInt(sa.n)
      nb == FromInt(sb.n)
      sumv == Div[Add[va, vb], Add[na, nb]]
      t == Div[Sub[sa.mean, sb.mean], MathSqrt[sumv]]
      df == FromInt(sa.n + sb.n - 2)
  IN [t |-> t, df |-> df, p |-> pTwoSidedFromT(t, df),
      g |-> Div[Sub[sa.mean, sb.mean], MathSqrt[Div[Add[va, vb], Two]]],
      sa |-> sa, sb |-> sb]

welchTTest(a, b) ==
  LET sa == summarize(a)
      sb == summarize(b)
      va == Mul[sa.sd, sa.sd]
      vb == Mul[sb.sd, sb.sd]
      na == FromInt(sa.n)
      nb == FromInt(sb.n)
      sumv == Add[Div[va, na], Div[vb, nb]]
      t == Div[Sub[sa.mean, sb.mean], MathSqrt[sumv]]
      num == Mul[sumv, sumv]
      den == Add[Div[Mul[va, va], FromInt(sa.n * sa.n * (sa.n - 1))],
                 Div[Mul[vb, vb], FromInt(sb.n * sb.n * (sb.n - 1))]]
      df == Div[num, den]
      sp == MathSqrt[Div[Add[Mul[FromInt(sa.n - 1), va],
                             Mul[FromInt(sb.n - 1), vb]],
                         FromInt(sa.n + sb.n - 2)]]
      d == Div[Sub[sa.mean, sb.mean], sp]
      J == Sub[One, Div[FromInt(3), FromInt(4 * (sa.n + sb.n) - 9)]]
  IN [t |-> t, df |-> df, p |-> pTwoSidedFromT(t, df), g |-> Mul[d, J],
      sa |-> sa, sb |-> sb]

\* num, dx and dy of the loop of pearsonCorrelation, from round i on
PearsonSums[x \in Seq(Num), y \in Seq(Num), mx \in Num, my \in Num, i \in Nat, num \in Num, dx \in Num, dy \in Num] ==
  IF i > Len(x) THEN [num |-> num, dx |-> dx, dy |-> dy]
  ELSE PearsonSums[x, y, mx, my, i + 1,
                   Add[num, Mul[Sub[x[i], mx], Sub[y[i], my]]],
                   Add[dx, Mul[Sub[x[i], mx], Sub[x[i], mx]]],
                   Add[dy, Mul[Sub[y[i], my], Sub[y[i], my]]]]

pearsonCorrelation(x, y) ==
  LET n == Len(x)
      acc == PearsonSums[x, y, mean(x), mean(y), 1, Zero, Zero, Zero]
      r == Div[acc.num, MathSqrt[Mul[acc.dx, acc.dy]]]
      df == FromInt(n - 2)
      t == Mul[r, MathSqrt[Div[df, Sub[One, Mul[r, r]]]]]
  IN [r |-> r, t |-> t, df |-> df, p |-> pTwoSidedFromT(t, df)]

\* ------------------------------------------------------------------------
\* Strings: the text the program inspects character by character (cells,
\* headers, selections, the mu0 input) is a sequence of one-character
\* strings; Str turns it into a string
\* ------------------------------------------------------------------------
RECURSIVE Str(_)
Str(cs) == IF cs = <<>> THEN "" ELSE Head(cs) \o Str(Tail(cs))

Digits == <<"0", "1", "2", "3", "4", "5", "6", "7", "8", "9">>
IsDigit(c) == \E i \in 1..10 : Digits[i] = c
DigitVal(c) == (CHOOSE i \in 1..10 : Digits[i] = c) - 1

RECURSIVE IntChars(_)
\* the decimal digits of a natural number
IntChars(n) ==
  IF n < 10 THEN <<Digits[n + 1]>>
  ELSE Append(IntChars(n \div 10), Digits[(n % 10) + 1])

RECURSIVE PadZeros(_, _)
PadZeros(cs, width) == IF Len(cs) >= width THEN cs ELSE PadZeros(<<"0">> \o cs, width)

RECURSIVE TrimStart(_)
TrimStart(cs) == IF cs # <<>> /\ Head(cs) = " " THEN TrimStart(Tail(cs)) ELSE cs
RECURSIVE TrimEnd(_)
TrimEnd(cs) ==
  IF cs # <<>> /\ cs[Len(cs)] = " " THEN TrimEnd(SubSeq(cs, 1, Len(cs) - 1)) ELSE cs
\* String.prototype.trim
Trim(cs) == TrimEnd(TrimStart(cs))

RECURSIVE DigitsValue(_)
\* the natural number written by a sequence of digits
DigitsValue(cs) ==
  IF cs = <<>> THEN 0 ELSE 10 * DigitsValue(SubSeq(cs, 1, Len(cs) - 1)) + DigitVal(cs[Len(cs)])

InfinityChars == <<"I", "n", "f", "i", "n", "i", "t", "y">>

\* a sign in front of a numeric string is dropped
StripSign(s) == IF s # <<>> /\ Head(s) \in {"-", "+"} THEN Tail(s) ELSE s

\* StrDecimalLiteral without exponent: digits with at most one point and at
\* least one digit
IsDecimalLiteral(cs) ==
  /\ \E i \in 1..Len(cs) : IsDigit(cs[i])
  /\ \A i \in 1..Len(cs) : IsDigit(cs[i]) \/ cs[i] = "."
  /\ Cardinality({i \in 1..Len(cs) : cs[i] = "."}) <= 1

\* the value of an unsigned decimal literal
DecimalValue(cs) ==
  LET dots == {i \in 1..Len(cs) : cs[i] = "."}
      pt == IF dots = {} THEN Len(cs) + 1 ELSE CHOOSE i \in dots : TRUE
      fp == SubSeq(cs, pt + 1, Len(cs))
  IN Div[FromInt(DigitsValue(SubSeq(cs, 1, pt - 1) \o fp)), FromInt(10^Len(fp))]

\* Number(s) for a string: blank is 0, a signed decimal literal or Infinity
\* is its value, anything else is NaN (exponents and hexadecimal literals
\* are not modelled)
Number(cs) ==
  LET s == Trim(cs)
      u == StripSign(s)
      v == IF u = InfinityChars THEN Inf(1)
           ELSE IF IsDecimalLiteral(u) THEN DecimalValue(u)
           ELSE NaN
  IN IF s = <<>> THEN Zero
     ELSE IF Head(s) = "-" THEN Neg[v] ELSE v

\* Number.prototype.toFixed(d), as characters
ToFixedChars(x, d) ==
  IF IsNaN(x) THEN <<"N", "a", "N">>
  ELSE IF IsInf(x) THEN (IF x.s < 0 THEN <<"-">> ELSE <<>>) \o InfinityChars
  ELSE LET n == RoundInt(Mul[Abs[x], FromInt(10^d)])
       IN (IF x.s < 0 /\ ~IsZero(x) THEN <<"-">> ELSE <<>>)
          \o IntChars(n \div 10^d)
          \o (IF d > 0 THEN <<".">> \o PadZeros(IntChars(n % 10^d), d) ELSE <<>>)

toFixed(x, d) == Str(ToFixedChars(x, d))

\* String(x) of a number: the shortest decimal that reads back as x, with
\* at most 6 decimals
NumberToString(x) ==
  IF ~IsFin(x) THEN toFixed(x, 0)
  ELSE LET ok == {d \in 0..6 : Number(ToFixedChars(x, d)) = x}
           d == IF ok = {} THEN 6 ELSE CHOOSE i \in ok : \A j \in ok : i <= j
       IN toFixed(x, d)

\* ------------------------------------------------------------------------
\* Formatting (Page.fmt, Page.fmtP)
\* ------------------------------------------------------------------------
fmt(x) == IF IsFinite(x) THEN toFixed(x, 2) ELSE "NA"

\* s.replace(/^0/, "")
StripLeadingZero(cs) == IF cs # <<>> /\ Head(cs) = "0" THEN Tail(cs) ELSE cs

\* fmtP without the replace(/^0/, "")
fmtPKeepZero(p) ==
  IF ~IsFinite(p) THEN "NA"
  ELSE IF Lt[p, Sci(1, -3)] THEN "< .001"
  ELSE toFixed(p, 3)

fmtP(p) ==
  IF ~IsFinite(p) THEN "NA"
  ELSE IF Lt[p, Sci(1, -3)] THEN "< .001"
  ELSE Str(StripLeadingZero(ToFixedChars(p, 3)))

\* ------------------------------------------------------------------------
\* CSV parsing.  The text of a file is given as its lines, each line as the
\* cells obtained by splitting it at the commas.
\* ------------------------------------------------------------------------
Range(f) == {f[i] : i \in DOMAIN f}

\* l.trim().length > 0 for the line made of the given cells
NonBlankLine(cells) == Len(cells) > 1 \/ Trim(cells[1]) # <<>>

parseCSV(text) ==
  LET lines == SelectSeq(text, NonBlankLine) IN
  IF lines = <<>>
  THEN [threw |-> TRUE, rows |-> <<>>,
        message |-> "Cannot read properties of undefined (reading 'map')"]
  ELSE LET headers == [i \in 1..Len(lines[1]) |-> Trim(lines[1][i])]
           Last(h) == CHOOSE i \in 1..Len(headers) :
                        headers[i] = h /\ \A j \in 1..Len(headers) :
                                            headers[j] = h => j <= i
           Row(cells) == [h \in Range(headers) |->
                            IF Last(h) <= Len(cells) THEN Trim(cells[Last(h)])
                            ELSE <<>>]
       IN [threw |-> FALSE,
           rows |-> [j \in 1..(Len(lines) - 1) |-> Row(lines[j + 1])],
           message |-> ""]

\* the value of "no number"
Null == [k |-> "null", s |-> 1, m |-> 0, e |-> 0]

toNumberMaybe(v) ==
  LET s == Trim(v) IN
  IF s = <<>> THEN Null
  ELSE LET n == Number(s) IN IF IsFinite(n) THEN n ELSE Null

\* toNumberMaybe(v) !== null: v is not blank and Number(v) is finite, which
\* it is exactly for the signed decimal literals
NotNull(v) == Trim(v) # <<>> /\ IsDecimalLiteral(StripSign(Trim(v)))

\* r[col] ?? ""
Cell(r, col) == IF col \in DOMAIN r THEN r[col] ELSE <<>>

\* the characters that may occur in a group label, in collation order
LowerCase ==
  << "a", "b", "c", "d", "e", "f", "g", "h", "i", "j", "k", "l", "m",
     "n", "o", "p", "q", "r", "s", "t", "u", "v", "w", "x", "y", "z" >>
UpperCase ==
  << "A", "B", "C", "D", "E", "F", "G", "H", "I", "J", "K", "L", "M",
     "N", "O", "P", "Q", "R", "S", "T", "U", "V", "W", "X", "Y", "Z" >>
ToUpper(c) == IF \E i \in 1..26 : LowerCase[i] = c
              THEN UpperCase[CHOOSE i \in 1..26 : LowerCase[i] = c] ELSE c
ToLower(c) == IF \E i \in 1..26 : UpperCase[i] = c
              THEN LowerCase[CHOOSE i \in 1..26 : UpperCase[i] = c] ELSE c

\* the characters of the modelled files in collation order: blank,
\* punctuation, digits, letters
Alphabet == <<" ", "-", ".">> \o Digits \o LowerCase
CharRank(c) == CHOOSE i \in 1..Len(Alphabet) : Alphabet[i] = ToLower(c)

RECURSIVE PrimaryCompare(_, _)
\* the first level of the collation: letters without their case
PrimaryCompare(a, b) ==
  IF a = <<>> THEN (IF b = <<>> THEN 0 ELSE -1)
  ELSE IF b = <<>> THEN 1
  ELSE IF CharRank(Head(a)) = CharRank(Head(b))
       THEN PrimaryCompare(Tail(a), Tail(b))
  ELSE IF CharRank(Head(a)) < CharRank(Head(b)) THEN -1 ELSE 1

RECURSIVE CaseLe(_, _)
\* the case level, for strings equal on the first level: lower case first
CaseLe(a, b) ==
  IF a = <<>> THEN TRUE
  ELSE IF Head(a) = Head(b) THEN CaseLe(Tail(a), Tail(b))
  ELSE Head(a) = ToLower(Head(a))

\* a.localeCompare(b) <= 0
LocaleLe(a, b) ==
  LET c == PrimaryCompare(a, b)
  IN IF c = 0 THEN CaseLe(a, b) ELSE c < 0

RECURSIVE SortLocale(_)
\* Array.from(set).sort((a, b) => a.localeCompare(b))
SortLocale(S) ==
  IF S = {} THEN <<>>
  ELSE LET least == CHOOSE x \in S : \A y \in S : LocaleLe(x, y)
       IN <<least>> \o SortLocale(S \ {least})

uniqueNonEmpty(values) == SortLocale({Trim(values[i]) : i \in DOMAIN values} \ {<<>>})

Column(rs, col) == [i \in 1..Len(rs) |-> Cell(rs[i], col)]

\* ------------------------------------------------------------------------
\* Page: values derived from the state (useMemo)
\* ------------------------------------------------------------------------
columns(rs) ==
  IF rs = <<>> THEN {}
  ELSE UNION {DOMAIN rs[i] : i \in 1..(IF Len(rs) < 50 THEN Len(rs) ELSE 50)}

numericColumns(rs) ==
  IF rs = <<>> THEN {}
  ELSE {c \in columns(rs) :
          LET vals == SelectSeq(Column(rs, c), LAMBDA v : Trim(v) # <<>>)
              numericCount == Len(SelectSeq(vals, NotNull))
          IN Len(vals) >= 5 /\ 10 * numericCount >= 7 * Len(vals)}

categoricalColumns(rs) ==
  IF rs = <<>> THEN {}
  ELSE {c \in columns(rs) \ numericColumns(rs) :
          LET n == Len(uniqueNonEmpty(Column(rs, c)))
              half == Len(rs) \div 2
          IN n >= 2 /\ n <= (IF half < 20 THEN half ELSE 20)}

levels(rs, gVar) ==
  IF gVar = <<>> \/ rs = <<>> THEN <<>> ELSE uniqueNonEmpty(Column(rs, gVar))

\* the effect with group B set to the first level as well
AutoSelectFirst(lv, gA, gB) ==
  IF Len(lv) >= 2
  THEN [A |-> IF gA \in Range(lv) THEN gA ELSE lv[1],
        B |-> IF gB \in Range(lv) THEN gB ELSE lv[1]]
  ELSE [A |-> gA, B |-> gB]

\* the group selection after the auto-selection effect has run for lv
AutoSelect(lv, gA, gB) ==
  IF Len(lv) >= 2
  THEN [A |-> IF gA \in Range(lv) THEN gA ELSE lv[1],
        B |-> IF gB \in Range(lv) THEN gB ELSE lv[2]]
  ELSE [A |-> gA, B |-> gB]

getVector(rs, col) ==
  SelectSeq([i \in 1..Len(rs) |-> toNumberMaybe(Cell(rs[i], col))],
            LAMBDA v : v # Null)

\* the indices 1..n in order
Indices(n) == [i \in 1..n |-> i]

\* the numbers of each column collected on their own
getPairedPerColumn(rs, aCol, bCol) ==
  LET va == [i \in 1..Len(rs) |-> toNumberMaybe(Cell(rs[i], aCol))]
      vb == [i \in 1..Len(rs) |-> toNumberMaybe(Cell(rs[i], bCol))]
  IN [a |-> SelectSeq(va, LAMBDA v : v # Null),
      b |-> SelectSeq(vb, LAMBDA v : v # Null),
      from |-> SelectSeq(Indices(Len(rs)), LAMBDA i : va[i] # Null)]

\* rows.forEach: the pairs of the rows where both cells are numbers, and the
\* rows they come from
getPaired(rs, aCol, bCol) ==
  LET va == [i \in 1..Len(rs) |-> toNumberMaybe(Cell(rs[i], aCol))]
      vb == [i \in 1..Len(rs) |-> toNumberMaybe(Cell(rs[i], bCol))]
      from == SelectSeq(Indices(Len(rs)), LAMBDA i : va[i] # Null /\ vb[i] # Null)
  IN [a |-> [j \in 1..Len(from) |-> va[from[j]]],
      b |-> [j \in 1..Len(from) |-> vb[from[j]]],
      from |-> from]

\* rows.forEach: the numbers of the outcome in the rows of group A, and of
\* group B
getGrouped(rs, outcome, gVar, A, B) ==
  LET g == [i \in 1..Len(rs) |-> Trim(Cell(rs[i], gVar))]
      v == [i \in 1..Len(rs) |-> toNumberMaybe(Cell(rs[i], outcome))]
      inA == SelectSeq(Indices(Len(rs)), LAMBDA i : v[i] # Null /\ g[i] = A)
      inB == SelectSeq(Indices(Len(rs)), LAMBDA i : v[i] # Null /\ g[i] = B)
  IN [a |-> [j \in 1..Len(inA) |-> v[inA[j]]],
      b |-> [j \in 1..Len(inB) |-> v[inB[j]]]]

\* s.split(/\s+/).map(capitalise).join(" "): runs of blanks collapse
titleCase(cs) ==
  LET keep == {i \in 1..Len(cs) : ~(i > 1 /\ cs[i] = " " /\ cs[i - 1] = " ")}
      cased == [i \in 1..Len(cs) |->
                  IF i = 1 \/ cs[i - 1] = " " THEN ToUpper(cs[i]) ELSE ToLower(cs[i])]
      RECURSIVE Pick(_)
      Pick(i) == IF i = 0 THEN <<>>
                 ELSE IF i \in keep THEN Append(Pick(i - 1), cased[i])
                 ELSE Pick(i - 1)
  IN Pick(Len(cs))

\* ------------------------------------------------------------------------
\* Page: the output computation (the try block of the output memo).  A
\* result carries its kind, the message or the sentence, the rendered
\* statistic fields of the sentence, the test result and the procedures
\* called, in call order.
\* ------------------------------------------------------------------------
RECURSIVE Concat(_)
\* the text of a template literal from its parts
Concat(parts) == IF parts = <<>> THEN "" ELSE Head(parts) \o Concat(Tail(parts))

NoOutput == [kind |-> "null"]

\* an error raised after the sample has been summarized
ThrownAfterSummarize(msg, called) ==
  [kind |-> "error", message |-> msg, calls |-> <<"summarize">>]

\* throw new Error(msg), caught by the catch of output; called lists the
\* statistical functions called before the throw
Thrown(msg, called) == [kind |-> "error", message |-> msg, calls |-> called]

OutputPaired(rs, aCol, bCol) ==
  LET v == getPaired(rs, aCol, bCol) IN
  IF Len(v.a) < 3 THEN Thrown("Not enough paired rows.", <<>>)
  ELSE LET sa == summarize(v.a)
           sb == summarize(v.b)
           res == pairedTTest(v.a, v.b)
           f == [M1 |-> fmt(sa.mean), SD1 |-> fmt(sa.sd),
                 M2 |-> fmt(sb.mean), SD2 |-> fmt(sb.sd),
                 df |-> NumberToString(res.df), t |-> toFixed(res.t, 2),
                 p |-> fmtP(res.p), d |-> toFixed(res.d, 2)]
       IN [kind |-> "paired",
           barData |-> << [name |-> aCol, Mean |-> sa.mean, SE |-> sa.se],
                          [name |-> bCol, Mean |-> sb.mean, SE |-> sb.se] >>,
           apa |-> Concat(<<
               "A paired-samples t-test compared ", Str(aCol), " (M = ",
               f.M1, ", SD = ", f.SD1, ") and ", Str(bCol), " (M = ", f.M2,
               ", SD = ", f.SD2, "). The analysis yielded t(", f.df, ") = ",
               f.t, ", p = ", f.p, ", d = ", f.d, "." >>),
           fields |-> f, res |-> res, a |-> v.a, b |-> v.b, from |-> v.from,
           calls |-> <<"summarize", "summarize", "pairedTTest">>]

OutputOneSample(rs, col, muText) ==
  LET vec == getVector(rs, col) IN
  IF Len(vec) < 3 THEN Thrown("Not enough numeric rows.", <<>>)
  ELSE LET mu == Number(muText) IN
       \* the message of the source writes mu0 with the Greek letter
       IF ~IsFinite(mu) THEN Thrown("mu0 must be a number.", <<>>)
       ELSE LET res == oneSampleT(vec, mu)
                f == [mu |-> NumberToString(mu), df |-> NumberToString(res.df),
                      t |-> toFixed(res.t, 2), p |-> fmtP(res.p),
                      d |-> toFixed(res.d, 2)]
            IN [kind |-> "onesample",
                apa |-> Concat(<<
                    "A one-sample t-test evaluated whether ", Str(col),
                    " differed from ", f.mu, ". The analysis yielded t(",
                    f.df, ") = ", f.t, ", p = ", f.p, ", d = ", f.d, "." >>),
                fields |-> [df |-> f.df, t |-> f.t, p |-> f.p, d |-> f.d],
                res |-> res, a |-> vec, mu |-> mu,
                calls |-> <<"oneSampleT">>]

OutputIndependent(rs, outcome, gVar, A, B) ==
  IF gVar = <<>> \/ A = <<>> \/ B = <<>> \/ A = B
  THEN Thrown("Select two different groups.", <<>>)
  ELSE LET v == getGrouped(rs, outcome, gVar, A, B) IN
       IF Len(v.a) < 2 \/ Len(v.b) < 2
       THEN Thrown("Each group needs at least 2 observations.", <<>>)
       ELSE LET res == welchTTest(v.a, v.b)
                f == [M1 |-> fmt(res.sa.mean), SD1 |-> fmt(res.sa.sd),
                      M2 |-> fmt(res.sb.mean), SD2 |-> fmt(res.sb.sd),
                      df |-> toFixed(res.df, 1), t |-> toFixed(res.t, 2),
                      p |-> fmtP(res.p), g |-> toFixed(res.g, 2)]
            IN [kind |-> "independent",
                barData |-> << [name |-> A, Mean |-> res.sa.mean, SE |-> res.sa.se],
                               [name |-> B, Mean |-> res.sb.mean, SE |-> res.sb.se] >>,
                apa |-> Concat(<<
                    "An independent-samples t-test (Welch) compared ",
                    Str(outcome), " between ", Str(titleCase(A)), " (M = ",
                    f.M1, ", SD = ", f.SD1, ") and ", Str(titleCase(B)),
                    " (M = ", f.M2, ", SD = ", f.SD2,
                    "). The analysis yielded t(", f.df, ") = ", f.t,
                    ", p = ", f.p, ", g = ", f.g, "." >>),
                fields |-> f, res |-> res, a |-> v.a, b |-> v.b,
                calls |-> <<"welchTTest">>]

\* the correlation branch with a result that is not finite reported as an
\* error
OutputCorrelationFinite(rs, xCol, yCol) ==
  LET pts == getPaired(rs, xCol, yCol) IN
  IF Len(pts.a) < 4 THEN Thrown("Not enough paired rows for correlation.", <<>>)
  ELSE LET res == pearsonCorrelation(pts.a, pts.b)
           f == [df |-> NumberToString(res.df), r |-> toFixed(res.r, 2),
                 p |-> fmtP(res.p)]
       IN IF ~IsFinite(res.r)
          THEN Thrown("Error computing results.", <<"pearsonCorrelation">>)
          ELSE [kind |-> "correlation",
                apa |-> Concat(<< "r(", f.df, ") = ", f.r, ", p = ", f.p, "." >>),
                fields |-> f, res |-> res, a |-> pts.a, b |-> pts.b,
                from |-> pts.from, calls |-> <<"pearsonCorrelation">>]

OutputCorrelation(rs, xCol, yCol) ==
  LET pts == getPaired(rs, xCol, yCol) IN
  IF Len(pts.a) < 4 THEN Thrown("Not enough paired rows for correlation.", <<>>)
  ELSE LET res == pearsonCorrelation(pts.a, pts.b)
           f == [df |-> NumberToString(res.df), r |-> toFixed(res.r, 2),
                 p |-> fmtP(res.p)]
       IN [kind |-> "correlation",
           pts |-> [i \in 1..Len(pts.a) |-> [x |-> pts.a[i], y |-> pts.b[i]]],
           apa |-> Concat(<<
               "A Pearson correlation examined the association between ",
               Str(xCol), " and ", Str(yCol), ". The correlation was r(",
               f.df, ") = ", f.r, ", p = ", f.p, "." >>),
           fields |-> f, res |-> res, a |-> pts.a, b |-> pts.b, from |-> pts.from,
           calls |-> <<"pearsonCorrelation">>]

\* ------------------------------------------------------------------------
\* The files a user may select
\* ------------------------------------------------------------------------
ColLVF == <<"L", "V", "F">>
ColRVF == <<"R", "V", "F">>
ColLI == <<"L", "a", "t", "e", "r", "a", "l", "i", "z", "a", "t", "i", "o", "n",
           " ", "I", "n", "d", "e", "x">>
ColAge == <<"A", "g", "e">>
ColGender == <<"G", "e", "n", "d", "e", "r">>
ColHand == <<"H", "a", "n", "d">>

Header == <<ColLVF, ColRVF, ColLI, ColAge, ColGender>>
\* a data line whose first four cells are written from natural numbers
Line(lvf, rvf, li, age, g) ==
  <<IntChars(lvf), IntChars(rvf), IntChars(li), IntChars(age), g>>
GA == <<"a">>
GB == <<"b">>
Blank == <<>>

Files ==
  [ \* constant differences, constant index, two constant groups
    deg |-> << Header,
               Line(1, 2, 5, 1, GA), Line(2, 3, 5, 2, GA), Line(3, 4, 5, 3, GB),
               Line(4, 5, 5, 4, GB), Line(5, 6, 5, 5, GB) >>,
    \* two groups of five with the index 1..5 and 6..10, a second grouping
    welch |-> << Header \o <<<<" ">> \o ColHand>>,
                 Line(1, 2, 1, 3, GA) \o <<<<"l">>>>,
                 Line(2, 1, 2, 1, GA) \o <<<<"r">>>>,
                 Line(3, 4, 3, 4, GA) \o <<<<"l">>>>,
                 <<Blank>>,
                 Line(4, 7, 4, 1, GA) \o <<<<"r">>>>,
                 Line(5, 6, 5, 5, GA) \o <<<<"l", " ">>>>,
                 Line(6, 5, 6, 9, GB) \o <<<<"r">>>>,
                 Line(7, 9, 7, 2, GB) \o <<<<"l">>>>,
                 Line(8, 8, 8, 6, GB) \o <<<<"r">>>>,
                 Line(9, 12, 9, 5, GB) \o <<<<"l">>>>,
                 Line(10, 10, 10, 3, GB) \o <<<<"r">>>> >>,
    \* 2 complete pairs, 3 index values, groups of 1 and 2, 3 age/index pairs
    small |-> << Header,
                 Line(1, 2, 1, 1, GA), Line(2, 4, 2, 2, GB),
                 <<Blank, <<"3">>, <<"4">>, <<"5">>, GB>>,
                 <<<<"x">>, <<"4">>, InfinityChars, <<"4">>, GA>> >>,
    \* 3 complete pairs, 4 index values, groups of 2 and 2, 4 age/index pairs
    min |-> << Header,
               Line(1, 2, 1, 1, GA), Line(2, 1, 2, 2, GA), Line(3, 5, 4, 3, GB),
               <<<<" ">>, <<"7">>, <<" ", "8">>, <<"4">>, GB>> >>,
    \* one data row
    one |-> << Header, Line(1, 2, 3, 4, GA) >>,
    \* a header and no data row
    hdr |-> << Header, <<<<" ">>>> >>,
    \* no line at all
    empty |-> << <<Blank>> >> ]

FileNames == DOMAIN Files
NoFile == "none"

\* what a user may type into the mu0 input
MuInputs ==
  { <<"0">>, <<>>, <<" ">>, <<"x">>, InfinityChars, <<"N", "a", "N">>,
    <<"5">>, <<"2", ".", "5">> }

AnalysisTypes == {"paired", "onesample", "independent", "correlation"}

\* selection events of one run
MaxClicks == 2

\* ------------------------------------------------------------------------
\* State
\* ------------------------------------------------------------------------
VARIABLES
  rows, err, analysis,
  pairedA, pairedB, oneVar, oneMu,
  groupOutcome, groupVar, groupA, groupB,
  corrX, corrY,
  pending,      \* the files whose FileReader has not called onload yet
  clicks,       \* selection events so far
  call,         \* a function called on its own, with its arguments
  home,         \* the state of component Home
  widget        \* the state of component LateralizationWidget

pageVars == <<rows, err, analysis, pairedA, pairedB, oneVar, oneMu,
              groupOutcome, groupVar, groupA, groupB, corrX, corrY,
              pending, clicks>>
vars == <<rows, err, analysis, pairedA, pairedB, oneVar, oneMu,
          groupOutcome, groupVar, groupA, groupB, corrX, corrY,
          pending, clicks, call, home, widget>>

NoCall == [fn |-> "none"]

Init ==
  /\ rows = <<>>
  /\ err = ""
  /\ analysis = "paired"
  /\ pairedA = ColLVF
  /\ pairedB = ColRVF
  /\ oneVar = ColLI
  /\ oneMu = <<"0">>
  /\ groupOutcome = ColLI
  /\ groupVar = ColGender
  /\ groupA = <<>>
  /\ groupB = <<>>
  /\ corrX = ColAge
  /\ corrY = ColLI
  /\ pending = {}
  /\ clicks = 0
  /\ call = NoCall
  /\ home = [data |-> <<>>, err |-> "", analysis |-> "paired", pending |-> {}]
  /\ widget = [data |-> <<>>, error |-> "", analysis |-> "paired",
               pending |-> {}]

\* the output memo
output ==
  IF rows = <<>> THEN NoOutput
  ELSE IF analysis = "paired" THEN OutputPaired(rows, pairedA, pairedB)
  ELSE IF analysis = "onesample" THEN OutputOneSample(rows, oneVar, oneMu)
  ELSE IF analysis = "independent"
       THEN OutputIndependent(rows, groupOutcome, groupVar, groupA, groupB)
  ELSE IF analysis = "correlation" THEN OutputCorrelation(rows, corrX, corrY)
  ELSE NoOutput

\* ------------------------------------------------------------------------
\* Page: event handlers
\* ------------------------------------------------------------------------
\* the file input of the upload screen changes: f is the chosen file
handleFile(f) ==
  /\ rows = <<>>
  /\ err' = ""
  /\ IF f = NoFile THEN pending' = pending
     ELSE /\ Cardinality(pending) < MaxPending
          /\ f \notin pending
          /\ pending' = pending \cup {f}
  /\ UNCHANGED <<rows, analysis, pairedA, pairedB, oneVar, oneMu, groupOutcome,
                 groupVar, groupA, groupB, corrX, corrY, clicks, call,
                 home, widget>>

\* reader.onload for file f, followed by the group auto-selection effect
onload(f) ==
  /\ f \in pending
  /\ pending' = pending \ {f}
  /\ LET parsed == parseCSV(Files[f])
         failed == parsed.threw \/ Len(parsed.rows) = 0
         sel == AutoSelect(levels(rows', groupVar), groupA, groupB)
     IN /\ rows' = IF failed THEN <<>> ELSE parsed.rows
        /\ err' = IF parsed.threw THEN parsed.message
                  ELSE IF failed THEN "No data rows found."
                  ELSE err
        /\ groupA' = sel.A
        /\ groupB' = sel.B
  /\ UNCHANGED <<analysis, pairedA, pairedB, oneVar, oneMu, groupOutcome,
                 groupVar, corrX, corrY, clicks, call,
                 home, widget>>

\* the button "Upload new file"
reset ==
  /\ rows # <<>>
  /\ rows' = <<>>
  /\ err' = ""
  /\ UNCHANGED <<analysis, pairedA, pairedB, oneVar, oneMu, groupOutcome,
                 groupVar, groupA, groupB, corrX, corrY, pending, clicks, call,
                 home, widget>>

\* a selection event is possible on the loaded view, within the budget
CanClick == rows # <<>> /\ clicks < MaxClicks

setAnalysis ==
  /\ CanClick
  /\ \E a \in AnalysisTypes : analysis' = a
  /\ clicks' = clicks + 1
  /\ UNCHANGED <<rows, err, pairedA, pairedB, oneVar, oneMu, groupOutcome,
                 groupVar, groupA, groupB, corrX, corrY, pending, call,
                 home, widget>>

setPairedA ==
  /\ CanClick /\ analysis = "paired"
  /\ \E c \in numericColumns(rows) : pairedA' = c
  /\ clicks' = clicks + 1
  /\ UNCHANGED <<rows, err, analysis, pairedB, oneVar, oneMu, groupOutcome,
                 groupVar, groupA, groupB, corrX, corrY, pending, call,
                 home, widget>>

setPairedB ==
  /\ CanClick /\ analysis = "paired"
  /\ \E c \in numericColumns(rows) : pairedB' = c
  /\ clicks' = clicks + 1
  /\ UNCHANGED <<rows, err, analysis, pairedA, oneVar, oneMu, groupOutcome,
                 groupVar, groupA, groupB, corrX, corrY, pending, call,
                 home, widget>>

setOneVar ==
  /\ CanClick /\ analysis = "onesample"
  /\ \E c \in numericColumns(rows) : oneVar' = c
  /\ clicks' = clicks + 1
  /\ UNCHANGED <<rows, err, analysis, pairedA, pairedB, oneMu, groupOutcome,
                 groupVar, groupA, groupB, corrX, corrY, pending, call,
                 home, widget>>

setOneMu ==
  /\ CanClick /\ analysis = "onesample"
  /\ \E text \in MuInputs : oneMu' = text
  /\ clicks' = clicks + 1
  /\ UNCHANGED <<rows, err, analysis, pairedA, pairedB, oneVar, groupOutcome,
                 groupVar, groupA, groupB, corrX, corrY, pending, call,
                 home, widget>>

setGroupOutcome ==
  /\ CanClick /\ analysis = "independent"
  /\ \E c \in numericColumns(rows) : groupOutcome' = c
  /\ clicks' = clicks + 1
  /\ UNCHANGED <<rows, err, analysis, pairedA, pairedB, oneVar, oneMu,
                 groupVar, groupA, groupB, corrX, corrY, pending, call,
                 home, widget>>

\* the group variable changes, followed by the group auto-selection effect
setGroupVar ==
  /\ CanClick /\ analysis = "independent"
  /\ \E c \in categoricalColumns(rows) :
       /\ groupVar' = c
       /\ LET sel == IF c = groupVar THEN [A |-> groupA, B |-> groupB]
                     ELSE AutoSelect(levels(rows, c), groupA, groupB)
          IN groupA' = sel.A /\ groupB' = sel.B
  /\ clicks' = clicks + 1
  /\ UNCHANGED <<rows, err, analysis, pairedA, pairedB, oneVar, oneMu,
                 groupOutcome, corrX, corrY, pending, call,
                 home, widget>>

setGroupA ==
  /\ CanClick /\ analysis = "independent"
  /\ \E g \in Range(levels(rows, groupVar)) : groupA' = g
  /\ clicks' = clicks + 1
  /\ UNCHANGED <<rows, err, analysis, pairedA, pairedB, oneVar, oneMu,
                 groupOutcome, groupVar, groupB, corrX, corrY, pending, call,
                 home, widget>>

setGroupB ==
  /\ CanClick /\ analysis = "independent"
  /\ \E g \in Range(levels(rows, groupVar)) : groupB' = g
  /\ clicks' = clicks + 1
  /\ UNCHANGED <<rows, err, analysis, pairedA, pairedB, oneVar, oneMu,
                 groupOutcome, groupVar, groupA, corrX, corrY, pending, call,
                 home, widget>>

setCorrX ==
  /\ CanClick /\ analysis = "correlation"
  /\ \E c \in numericColumns(rows) : corrX' = c
  /\ clicks' = clicks + 1
  /\ UNCHANGED <<rows, err, analysis, pairedA, pairedB, oneVar, oneMu,
                 groupOutcome, groupVar, groupA, groupB, corrY, pending, call,
                 home, widget>>

setCorrY ==
  /\ CanClick /\ analysis = "correlation"
  /\ \E c \in numericColumns(rows) : corrY' = c
  /\ clicks' = clicks + 1
  /\ UNCHANGED <<rows, err, analysis, pairedA, pairedB, oneVar, oneMu,
                 groupOutcome, groupVar, groupA, groupB, corrX, pending, call,
                 home, widget>>

Next ==
  \/ \E f \in FileNames \cup {NoFile} : handleFile(f)
  \/ \E f \in FileNames : onload(f)
  \/ reset
  \/ setAnalysis
  \/ setPairedA
  \/ setPairedB
  \/ setOneVar
  \/ setOneMu
  \/ setGroupOutcome
  \/ setGroupVar
  \/ setGroupA
  \/ setGroupB
  \/ setCorrX
  \/ setCorrY

Spec == Init /\ [][Next]_vars

\* ------------------------------------------------------------------------
\* The components Home (src/app/page.tsx) and LateralizationWidget
\* (src/unnamed/part_000): fixed columns LVF, RVF and Lateralization Index.
\* A data row is kept as the texts of its three cells; the numbers of the
\* row are Number of these texts.
\* ------------------------------------------------------------------------
\* std of both components
std(arr) ==
  MathSqrt[Div[SqDevFrom[arr, mean(arr), 1, Zero], FromInt(Len(arr) - 1)]]

\* pairedTTest of both components
VariantPairedTTest(a, b) ==
  LET diffs == Diffs(a, b)
      mDiff == mean(diffs)
      sdDiff == std(diffs)
  IN [t |-> Div[mDiff, Div[sdDiff, MathSqrt[FromInt(Len(diffs))]]],
      d |-> Div[mDiff, sdDiff], df |-> FromInt(Len(diffs) - 1)]

\* oneSampleT of both components
VariantOneSampleT(arr, mu) ==
  [t |-> Div[Sub[mean(arr), mu], Div[std(arr), MathSqrt[FromInt(Len(arr))]]],
   df |-> FromInt(Len(arr) - 1)]

\* the text String(undefined) of a cell that a line does not have
Undefined == <<"u", "n", "d", "e", "f", "i", "n", "e", "d">>

\* row[index] of a line, for an index counted from 1
CellAt(cells, index) == IF index <= Len(cells) THEN cells[index] ELSE Undefined

\* headers.indexOf(name), counted from 1: 0 when name is absent
IndexOf(headers, name) ==
  IF \E i \in 1..Len(headers) : headers[i] = name
  THEN CHOOSE i \in 1..Len(headers) :
         headers[i] = name /\ \A j \in 1..(i - 1) : headers[j] # name
  ELSE 0

\* Number.isFinite(Number(v)) and !isNaN(Number(v)) for the text v of a cell
FiniteText(v) == Trim(v) = <<>> \/ IsDecimalLiteral(StripSign(Trim(v)))
NotNaNText(v) == FiniteText(v) \/ StripSign(Trim(v)) = InfinityChars

\* filter(Boolean) on the lines: only the empty string is dropped
NonEmptyLine(cells) == Len(cells) > 1 \/ cells[1] # <<>>

\* the three cells of every data line
ThreeCells(lines, lvfIndex, rvfIndex, liIndex) ==
  [j \in 1..(Len(lines) - 1) |->
     [LVF |-> CellAt(lines[j + 1], lvfIndex),
      RVF |-> CellAt(lines[j + 1], rvfIndex),
      LI |-> CellAt(lines[j + 1], liIndex)]]

\* parseCSV of Home
HomeParseCSV(text) ==
  LET lines == SelectSeq(text, NonEmptyLine) IN
  IF lines = <<>>
  THEN [threw |-> TRUE, rows |-> <<>>,
        message |-> "Cannot read properties of undefined (reading 'map')"]
  ELSE LET headers == [i \in 1..Len(lines[1]) |-> Trim(lines[1][i])]
           lvfIndex == IndexOf(headers, ColLVF)
           rvfIndex == IndexOf(headers, ColRVF)
           liIndex == IndexOf(headers, ColLI)
       IN IF lvfIndex = 0 \/ rvfIndex = 0
          THEN [threw |-> TRUE, rows |-> <<>>,
                message |-> "CSV must include columns named \"LVF\" and \"RVF\"."]
          ELSE IF liIndex = 0
          THEN [threw |-> TRUE, rows |-> <<>>,
                message |->
                  "CSV must include column named \"Lateralization Index\"."]
          ELSE [threw |-> FALSE, message |-> "",
                rows |-> SelectSeq(ThreeCells(lines, lvfIndex, rvfIndex, liIndex),
                                   LAMBDA d : /\ FiniteText(d.LVF)
                                              /\ FiniteText(d.RVF)
                                              /\ FiniteText(d.LI))]

\* parseCSV of LateralizationWidget
WidgetParseCSV(text) ==
  LET lines == SelectSeq(text, NonBlankLine) IN
  IF lines = <<>>
  THEN [threw |-> TRUE, rows |-> <<>>,
        message |-> "Cannot read properties of undefined (reading 'map')"]
  ELSE LET headers == [i \in 1..Len(lines[1]) |-> Trim(lines[1][i])]
           lvfIndex == IndexOf(headers, ColLVF)
           rvfIndex == IndexOf(headers, ColRVF)
           liIndex == IndexOf(headers, ColLI)
       IN IF lvfIndex = 0 \/ rvfIndex = 0 \/ liIndex = 0
          THEN [threw |-> TRUE, rows |-> <<>>,
                message |->
                  "CSV must contain LVF, RVF, and Lateralization Index columns."]
          ELSE [threw |-> FALSE, message |-> "",
                rows |-> SelectSeq(ThreeCells(lines, lvfIndex, rvfIndex, liIndex),
                                   LAMBDA d : /\ NotNaNText(d.LVF)
                                              /\ NotNaNText(d.RVF)
                                              /\ NotNaNText(d.LI))]

\* the results view of both components for the data rows d: the vectors,
\* the samples std is called on, in call order, and the two sentences
Results(d) ==
  LET lvf == [i \in 1..Len(d) |-> Number(d[i].LVF)]
      rvf == [i \in 1..Len(d) |-> Number(d[i].RVF)]
      li == [i \in 1..Len(d) |-> Number(d[i].LI)]
      paired == VariantPairedTTest(lvf, rvf)
      liTest == VariantOneSampleT(li, Zero)
  IN [screen |-> "results", lvf |-> lvf, rvf |-> rvf, li |-> li,
      stdOn |-> <<lvf, rvf, Diffs(lvf, rvf), li>>,
      paired |-> paired, liTest |-> liTest,
      apaPaired |->
        Concat(<< "A paired-samples t-test compared LVF (M = ",
                  toFixed(mean(lvf), 2), ", SD = ", toFixed(std(lvf), 2),
                  ") and RVF (M = ", toFixed(mean(rvf), 2), ", SD = ",
                  toFixed(std(rvf), 2), "). The analysis yielded t(",
                  NumberToString(paired.df), ") = ", toFixed(paired.t, 2),
                  ", d = ", toFixed(paired.d, 2), "." >>),
      apaLI |->
        Concat(<< "A one-sample t-test evaluated whether the lateralization ",
                  "index differed from zero. The analysis yielded t(",
                  NumberToString(liTest.df), ") = ", toFixed(liTest.t, 2),
                  "." >>)]

Upload == [screen |-> "upload"]

\* what Home renders: data.length === 0 shows the upload screen
HomeView == IF home.data = <<>> THEN Upload ELSE Results(home.data)

\* what LateralizationWidget renders: its data is <<>> for null and otherwise
\* the one-element sequence of the array of rows
WidgetView == IF widget.data = <<>> THEN Upload ELSE Results(widget.data[1])

VariantAnalyses == {"paired", "li"}

HomeHandleFile(f) ==
  /\ home.data = <<>>
  /\ IF f = NoFile THEN home' = [home EXCEPT !.err = ""]
     ELSE /\ Cardinality(home.pending) < MaxPending
          /\ f \notin home.pending
          /\ home' = [home EXCEPT !.err = "", !.pending = @ \cup {f}]
  /\ UNCHANGED <<pageVars, call, widget>>

HomeOnload(f) ==
  /\ f \in home.pending
  /\ LET parsed == HomeParseCSV(Files[f])
     IN home' = [home EXCEPT !.pending = @ \ {f},
                             !.data = IF parsed.threw THEN <<>> ELSE parsed.rows,
                             !.err = IF parsed.threw THEN parsed.message ELSE @]
  /\ UNCHANGED <<pageVars, call, widget>>

HomeReset ==
  /\ home.data # <<>>
  /\ home' = [home EXCEPT !.data = <<>>, !.err = ""]
  /\ UNCHANGED <<pageVars, call, widget>>

HomeSetAnalysis ==
  /\ home.data # <<>>
  /\ \E a \in VariantAnalyses : home' = [home EXCEPT !.analysis = a]
  /\ UNCHANGED <<pageVars, call, widget>>

WidgetHandleFile(f) ==
  /\ widget.data = <<>>
  /\ IF f = NoFile THEN widget' = [widget EXCEPT !.error = ""]
     ELSE /\ Cardinality(widget.pending) < MaxPending
          /\ f \notin widget.pending
          /\ widget' = [widget EXCEPT !.error = "", !.pending = @ \cup {f}]
  /\ UNCHANGED <<pageVars, call, home>>

WidgetOnload(f) ==
  /\ f \in widget.pending
  /\ LET parsed == WidgetParseCSV(Files[f])
     IN widget' = [widget EXCEPT
                     !.pending = @ \ {f},
                     !.data = IF parsed.threw THEN <<>> ELSE <<parsed.rows>>,
                     !.error = IF parsed.threw THEN parsed.message ELSE @]
  /\ UNCHANGED <<pageVars, call, home>>

WidgetSetAnalysis ==
  /\ widget.data # <<>>
  /\ \E a \in VariantAnalyses : widget' = [widget EXCEPT !.analysis = a]
  /\ UNCHANGED <<pageVars, call, home>>

NextVariants ==
  \/ \E f \in FileNames \cup {NoFile} : HomeHandleFile(f)
  \/ \E f \in FileNames : HomeOnload(f)
  \/ HomeReset
  \/ HomeSetAnalysis
  \/ \E f \in FileNames \cup {NoFile} : WidgetHandleFile(f)
  \/ \E f \in FileNames : WidgetOnload(f)
  \/ WidgetSetAnalysis

SpecVariants == Init /\ [][NextVariants]_vars

\* ------------------------------------------------------------------------
\* The functions on their own: a call is a function with its arguments,
\* drawn from bounded sets; its value is the function's value on them
\* ------------------------------------------------------------------------
\* a number of each kind that is not finite
NonFinite == {NaN, Inf(1), Inf(-1)}

\* p-values handed to fmtP, in millionths, and the non-finite ones
PMillionths ==
  { 0, 1, 500, 900, 949, 990, 999, 1000, 1001, 1400, 1600, 42000, 49000,
    50000, 500000, 999000, 999400, 999600, 1000000, 1500000, 10500000,
    -1, -500000 }
PVals == {Sci(n, -6) : n \in PMillionths} \cup NonFinite

callFmtP ==
  /\ call = NoCall
  /\ \E p \in PVals : call' = [fn |-> "fmtP", p |-> p]
  /\ UNCHANGED <<pageVars, home, widget>>

\* arguments a and b of betacf and regIncompleteBeta, in hundredths
ABHundredths == {0, 50, 100, 200, 450, -100, 100000000}
ABVals == {Sci(n, -2) : n \in ABHundredths} \cup {NaN, Inf(1)}
\* arguments x of betacf and regIncompleteBeta, in millionths
XMillionths ==
  {0, 1, 240000, 500000, 990000, 1000000, 2000000, -1000000}
XVals == {Sci(n, -6) : n \in XMillionths} \cup NonFinite
\* arguments z of logGamma, in ten-millionths
ZTenMillionths ==
  { 0, 1, 2500000, 4999999, 5000000, 5000001, 10000000, 25000000,
    100000000, -5000000, -15000000, -30000000 }
ZVals ==
  {Sci(n, -7) : n \in ZTenMillionths} \cup {FromInt(n) : n \in {-1000000, 1000000}}
    \cup NonFinite

callBetacf ==
  /\ call = NoCall
  /\ \E a \in ABVals, b \in ABVals, x \in XVals :
       call' = [fn |-> "betacf", a |-> a, b |-> b, x |-> x]
  /\ UNCHANGED <<pageVars, home, widget>>

callLogGamma ==
  /\ call = NoCall
  /\ \E z \in ZVals : call' = [fn |-> "logGamma", z |-> z]
  /\ UNCHANGED <<pageVars, home, widget>>

\* arguments t of pTwoSidedFromT and studentTCdf, in hundredths
THundredths == {0, 1, 50, 100, 250, -1, -50, -100, -250, 100000000, -100000000}
TVals == {Sci(n, -2) : n \in THundredths} \cup NonFinite
\* arguments df of pTwoSidedFromT and studentTCdf, in tenths
DfTenths == {5, 10, 20, 45, 80, 300, 0, -10}
DfVals == {Sci(n, -1) : n \in DfTenths} \cup {NaN, Inf(1)}

callPTwoSidedFromT ==
  /\ call = NoCall
  /\ \E t \in TVals, df \in DfVals :
       call' = [fn |-> "pTwoSidedFromT", t |-> t, df |-> df]
  /\ UNCHANGED <<pageVars, home, widget>>

callStudentTCdf ==
  /\ call = NoCall
  /\ \E t \in TVals, df \in DfVals :
       call' = [fn |-> "studentTCdf", t |-> t, df |-> df]
  /\ UNCHANGED <<pageVars, home, widget>>

callRegIncompleteBeta ==
  /\ call = NoCall
  /\ \E a \in ABVals, b \in ABVals, x \in XVals :
       call' = [fn |-> "regIncompleteBeta", a |-> a, b |-> b, x |-> x]
  /\ UNCHANGED <<pageVars, home, widget>>

\* the samples handed to the test procedures, as integers
Vec(ints) == [i \in DOMAIN ints |-> FromInt(ints[i])]
PairedSamples ==
  { <<<<1, 2, 3, 4, 5>>, <<2, 3, 4, 5, 6>>>>,
    <<<<1, 2, 3>>, <<4, 5, 6>>>>,
    <<<<1, 2, 3>>, <<1, 2, 3>>>>,
    <<<<1, 2, 3>>, <<2, 2, 5>>>>,
    <<<<3, 1, 4, 1>>, <<2, 7, 1, 8>>>>,
    <<<<5, 5, 5>>, <<5, 5, 5>>>> }
OneSamples ==
  { <<1, 2, 3>>, <<5, 5, 5, 5, 5>>, <<5, 5, 5>>, <<3, 1, 4, 1, 5>>,
    <<-2, 0, 2>> }
MuInts == {0, 5, 3, -1}
WelchSamples ==
  { <<<<1, 2, 3, 4, 5>>, <<6, 7, 8, 9, 10>>>>,
    <<<<1, 2>>, <<3, 5>>>>,
    <<<<1, 1>>, <<1, 1>>>>,
    <<<<1, 1>>, <<2, 2, 2>>>>,
    <<<<1, 2, 3>>, <<2, 2>>>>,
    <<<<3, 1, 4>>, <<1, 5, 9, 2>>>> }
CorrelationSamples ==
  { <<<<1, 2, 3, 4>>, <<2, 4, 6, 8>>>>,
    <<<<1, 2, 3, 4>>, <<4, 3, 2, 1>>>>,
    <<<<1, 1, 1, 1>>, <<1, 2, 3, 4>>>>,
    <<<<1, 2, 3, 4>>, <<2, 1, 4, 3>>>>,
    <<<<3, 1, 4, 1, 5>>, <<2, 7, 1, 8, 2>>>> }

callPairedTTest ==
  /\ call = NoCall
  /\ \E ab \in PairedSamples :
       call' = [fn |-> "pairedTTest", a |-> Vec(ab[1]), b |-> Vec(ab[2])]
  /\ UNCHANGED <<pageVars, home, widget>>

callOneSampleT ==
  /\ call = NoCall
  /\ \E arr \in OneSamples, mu \in MuInts :
       call' = [fn |-> "oneSampleT", a |-> Vec(arr), mu |-> FromInt(mu)]
  /\ UNCHANGED <<pageVars, home, widget>>

callWelchTTest ==
  /\ call = NoCall
  /\ \E ab \in WelchSamples :
       call' = [fn |-> "welchTTest", a |-> Vec(ab[1]), b |-> Vec(ab[2])]
  /\ UNCHANGED <<pageVars, home, widget>>

callPearsonCorrelation ==
  /\ call = NoCall
  /\ \E xy \in CorrelationSamples :
       call' = [fn |-> "pearsonCorrelation", a |-> Vec(xy[1]), b |-> Vec(xy[2])]
  /\ UNCHANGED <<pageVars, home, widget>>

\* the call returns
return ==
  /\ call # NoCall
  /\ call' = NoCall
  /\ UNCHANGED <<pageVars, home, widget>>

NextFn ==
  \/ callFmtP
  \/ callBetacf
  \/ callLogGamma
  \/ callPTwoSidedFromT
  \/ callStudentTCdf
  \/ callRegIncompleteBeta
  \/ callPairedTTest
  \/ callOneSampleT
  \/ callWelchTTest
  \/ callPearsonCorrelation
  \/ return

SpecFn == Init /\ [][NextFn]_vars
\* ------------------------------------------------------------------------
\* Properties
\* ------------------------------------------------------------------------
\* the number of rows whose cells in both columns are numeric
Complete(aCol, bCol) ==
  Cardinality({i \in 1..Len(rows) : /\ NotNull(Cell(rows[i], aCol))
                                    /\ NotNull(Cell(rows[i], bCol))})

\* the number of rows of group g with a numeric outcome
InGroup(g) ==
  Cardinality({i \in 1..Len(rows) : /\ NotNull(Cell(rows[i], groupOutcome))
                                    /\ Trim(Cell(rows[i], groupVar)) = g})

\* the kinds of a result that carries a sentence
SentenceKinds == {"paired", "onesample", "independent", "correlation"}

\* C1: in the sentence of every analysis mode, a statistic that is not
\* finite is rendered as "NA": no field of the sentence reads "NaN",
\* "Infinity" or "-Infinity", and a test statistic t that is not finite
\* (as in a one-sample test on values all equal to mu0) is shown as "NA".
C1_NonFiniteAsNA ==
  LET o == output IN
  o.kind \in SentenceKinds =>
    /\ \A k \in DOMAIN o.fields :
         o.fields[k] \notin {"NaN", "Infinity", "-Infinity"}
    /\ (o.kind # "correlation" /\ ~IsFinite(o.res.t)) => o.fields.t = "NA"
\* the differences a[i] - b[i] are all the same constant other than zero
ConstantNonZeroDiffs(a, b) ==
  /\ Len(a) = Len(b)
  /\ Len(a) >= 3
  /\ ~IsZero(Sub[a[1], b[1]])
  /\ \A i \in 1..Len(a) : Sub[a[i], b[i]] = Sub[a[1], b[1]]

\* C2: a paired t-test on n >= 3 pairs whose differences are all the same
\* non-zero constant has sd(diffs) = 0, a statistic t that is not finite,
\* and a p-value that fmtP shows as "NA".
C2_DegeneratePairedNA ==
  (call.fn = "pairedTTest" /\ ConstantNonZeroDiffs(call.a, call.b)) =>
    LET res == pairedTTest(call.a, call.b) IN
    /\ IsZero(sd(Diffs(call.a, call.b)))
    /\ ~IsFinite(res.t)
    /\ fmtP(res.p) = "NA"
\* the samples a = [1,2,3,4,5] and b = [6,7,8,9,10]
WelchExample ==
  /\ call.fn = "welchTTest"
  /\ call.a = Vec(<<1, 2, 3, 4, 5>>)
  /\ call.b = Vec(<<6, 7, 8, 9, 10>>)

\* C3 as stated: welchTTest on a = [1,2,3,4,5], b = [6,7,8,9,10] returns t
\* formatted "-7.07", df = 8 (to three decimals) and a p-value that fmtP
\* renders as "< .001".
C3_WelchAsStated ==
  WelchExample =>
    LET res == welchTTest(call.a, call.b) IN
    /\ toFixed(res.t, 2) = "-7.07"
    /\ toFixed(res.df, 3) = "8.000"
    /\ fmtP(res.p) = "< .001"

\* C3, amended: welchTTest on a = [1,2,3,4,5], b = [6,7,8,9,10] (means 3 and
\* 8, both sample variances 2.5) returns t formatted "-5.00", df = 8 (to
\* three decimals) and a p-value that fmtP renders as ".001".
C3_Welch ==
  WelchExample =>
    LET res == welchTTest(call.a, call.b) IN
    /\ res.sa.mean = FromInt(3)
    /\ res.sb.mean = FromInt(8)
    /\ varianceSample(call.a) = Sci(25, -1)
    /\ varianceSample(call.b) = Sci(25, -1)
    /\ toFixed(res.t, 2) = "-5.00"
    /\ toFixed(res.df, 3) = "8.000"
    /\ fmtP(res.p) = ".001"

C3_Witness == WelchExample
\* the output is an error with a message, raised before any statistical
\* function was called
Rejected(o) == o.kind = "error" /\ o.message # "" /\ o.calls = <<>>

\* C4: when the extracted sample is below the minimum of the mode (paired:
\* 3 complete pairs; one-sample: 3 numeric values; independent: 2 values in
\* each group; correlation: 4 complete pairs), the output is an error with
\* a message and neither summarize nor a test procedure has been called;
\* at or above the minimum the size check raises no error.
C4_SizeChecksFirst ==
  rows # <<>> =>
    LET o == output IN
    /\ analysis = "paired" =>
         IF Complete(pairedA, pairedB) < 3 THEN Rejected(o)
         ELSE o.kind = "paired"
    /\ analysis = "onesample" =>
         IF Complete(oneVar, oneVar) < 3 THEN Rejected(o)
         ELSE o.kind = "error" => o.message # "Not enough numeric rows."
    /\ analysis = "independent" =>
         IF InGroup(groupA) < 2 \/ InGroup(groupB) < 2 THEN Rejected(o)
         ELSE o.kind = "error" => o.message = "Select two different groups."
    /\ analysis = "correlation" =>
         IF Complete(corrX, corrY) < 4 THEN Rejected(o)
         ELSE o.kind = "correlation"

\* a correlation on exactly 3 complete pairs has been rejected
C4_Witness ==
  /\ rows # <<>>
  /\ analysis = "correlation"
  /\ Complete(corrX, corrY) = 3
  /\ Rejected(output)
\* the text is a finite number: it is not blank and reads as a finite value
FiniteNumberText(cs) == Trim(cs) # <<>> /\ IsFinite(Number(cs))

\* the group selection does not resolve to two distinct groups
BadGroups == groupVar = <<>> \/ groupA = <<>> \/ groupB = <<>> \/ groupA = groupB

\* C5: a mu0 input that is not a finite number (empty or whitespace-only
\* input included) in one-sample mode, and a group selection with an empty
\* group variable, group A or group B, or with group A equal to group B, in
\* independent mode, each yield an error output, and oneSampleT / welchTTest
\* is not called.
C5_InvalidParameterRejected ==
  rows # <<>> =>
    /\ (analysis = "onesample" /\ ~FiniteNumberText(oneMu)) => Rejected(output)
    /\ (analysis = "independent" /\ BadGroups) => Rejected(output)
\* the p of the test procedure called, on the arguments of the call
TestP ==
  IF call.fn = "pairedTTest" THEN pairedTTest(call.a, call.b).p
  ELSE IF call.fn = "oneSampleT" THEN oneSampleT(call.a, call.mu).p
  ELSE IF call.fn = "welchTTest" THEN welchTTest(call.a, call.b).p
  ELSE pearsonCorrelation(call.a, call.b).p

TestProcedures == {"pairedTTest", "oneSampleT", "welchTTest", "pearsonCorrelation"}

\* C6: the two-sided p returned by every test procedure on inputs that pass
\* the minimum-size checks is a number in [0, 1]: never NaN, negative or
\* greater than 1, also for a sample of zero variance or a degenerate
\* correlation.
C6_PInUnitInterval ==
  call.fn \in TestProcedures =>
    LET p == TestP IN ~IsNaN(p) /\ Ge[p, Zero] /\ Ge[One, p]

\* df is a number greater than 0
PositiveDf(df) == IsFinite(df) /\ Lt[Zero, df]

\* C7: pTwoSidedFromT(0, df) is exactly 1 for every df > 0, df a finite
\* number of degrees of freedom.
C7_PAtZeroIsOne ==
  (call.fn = "pTwoSidedFromT" /\ IsZero(call.t) /\ PositiveDf(call.df)) =>
    pTwoSidedFromT(call.t, call.df) = One

C7_Witness ==
  call.fn = "pTwoSidedFromT" /\ IsZero(call.t) /\ call.df = Sci(45, -1)

\* C8: pTwoSidedFromT(t, df) = pTwoSidedFromT(-t, df) for all t and df; for
\* an infinite or NaN t both sides are the same value or both NaN.
C8_Symmetric ==
  call.fn = "pTwoSidedFromT" =>
    pTwoSidedFromT(call.t, call.df) = pTwoSidedFromT(Neg[call.t], call.df)

C8_Witness ==
  /\ call.fn = "pTwoSidedFromT"
  /\ call.t = Sci(-250, -2)
  /\ call.df = FromInt(8)
  /\ LET p == pTwoSidedFromT(call.t, call.df) IN Lt[Zero, p] /\ Lt[p, One]

\* C9: regIncompleteBeta(a, b, x) returns exactly 0 for any x <= 0 and
\* exactly 1 for any x >= 1, for every a and b, without evaluating logGamma
\* or betacf.
C9_EarlyReturns ==
  call.fn = "regIncompleteBeta" =>
    LET r == regIncompleteBetaRun(call.a, call.b, call.x) IN
    /\ Ge[Zero, call.x] => r.ret = Zero /\ r.calls = {}
    /\ Ge[call.x, One] => r.ret = One /\ r.calls = {}

C9_Witness ==
  /\ call.fn = "regIncompleteBeta"
  /\ call.x = FromInt(2)
  /\ IsNaN(call.a)
  /\ regIncompleteBeta(call.a, call.b, call.x) = One

\* C10: for every df > 0 (a finite number of degrees of freedom),
\* studentTCdf(0, df) = 0.5, studentTCdf(+Infinity, df) = 1 and
\* studentTCdf(-Infinity, df) = 0; for t >= 0 the value is 1 - 0.5 * I and
\* for t < 0 it is 0.5 * I, so that studentTCdf(t, df) + studentTCdf(-t, df)
\* = 1 for every t other than 0, infinite t included.
C10_Cdf ==
  (call.fn = "studentTCdf" /\ PositiveDf(call.df) /\ ~IsNaN(call.t)) =>
    LET t == call.t
        df == call.df
        cdf == studentTCdf(t, df)
        I == regIncompleteBeta(Div[df, Two], Half, Div[df, Add[df, Mul[t, t]]])
    IN /\ IsZero(t) => cdf = Half
       /\ t = Inf(1) => cdf = One
       /\ t = Inf(-1) => cdf = Zero
       /\ Ge[t, Zero] => cdf = Sub[One, Mul[Half, I]]
       /\ Lt[t, Zero] => cdf = Mul[Half, I]
       /\ ~IsZero(t) => Add[cdf, studentTCdf(Neg[t], df)] = One

C10_Witness ==
  /\ call.fn = "studentTCdf"
  /\ call.t = Sci(-250, -2)
  /\ call.df = Sci(45, -1)
  /\ LET cdf == studentTCdf(call.t, call.df) IN Lt[Zero, cdf] /\ Lt[cdf, Half]

\* n thousandths written with three decimals and no leading zero
Thousandths(n) ==
  (IF n >= 1000 THEN IntChars(n \div 1000) ELSE <<>>)
    \o <<".">> \o PadZeros(IntChars(n % 1000), 3)

\* C11: fmtP(p) is "NA" exactly for the non-finite p, "< .001" exactly for
\* the finite p below 0.001, and otherwise p rounded to three decimals
\* without its leading zero (0.042 gives ".042", 0.5 gives ".500", 0.0009
\* gives "< .001"); for p in [0.001, 1] the result starts with "." or is
\* "1.000".
C11_fmtP ==
  call.fn = "fmtP" =>
    LET p == call.p
        r == fmtP(p)
        n == RoundInt(Mul[p, FromInt(1000)])
    IN /\ (r = "NA") <=> ~IsFinite(p)
       /\ (r = "< .001") <=> (IsFinite(p) /\ Lt[p, Sci(1, -3)])
       /\ (IsFinite(p) /\ ~Lt[p, Sci(1, -3)]) => r = Str(Thousandths(n))
       /\ p = Sci(42, -3) => r = ".042"
       /\ p = Sci(5, -1) => r = ".500"
       /\ p = Sci(9, -4) => r = "< .001"
       /\ (Ge[p, Sci(1, -3)] /\ Ge[One, p]) =>
            /\ n <= 1000
            /\ n < 1000 => Head(Thousandths(n)) = "."
            /\ n = 1000 => r = "1.000"

\* a p-value between 0.001 and 1 has been formatted without its zero
C11_Witness ==
  call.fn = "fmtP" /\ call.p = Sci(42, -3) /\ fmtP(call.p) = ".042"
\* the three cells of a data row are numeric: not blank, and finite numbers
NumericRow(d) == NotNull(d.LVF) /\ NotNull(d.RVF) /\ NotNull(d.LI)

\* C12: in Home and in LateralizationWidget, every element of the vectors
\* passed to pairedTTest and oneSampleT comes from a row whose LVF, RVF and
\* Lateralization Index cells are all numeric: a row with an empty, blank
\* or non-finite cell is dropped, never turned into a number such as 0.
C12_BlankCellsDropped ==
  /\ HomeView.screen = "results" =>
       \A i \in 1..Len(HomeView.lvf) : NumericRow(home.data[i])
  /\ WidgetView.screen = "results" =>
       \A i \in 1..Len(WidgetView.lvf) : NumericRow(widget.data[1][i])
\* std has been called on samples of at least two elements only
StdOnTwoOrMore(view) ==
  view.screen = "results" => \A k \in 1..Len(view.stdOn) : Len(view.stdOn[k]) >= 2

\* C13: in Home and in LateralizationWidget, std is never computed on a
\* sample with fewer than 2 elements: a file with exactly one valid data row
\* (or none) never leads to the results view and its sentences.
C13_StdOnTwoOrMore == StdOnTwoOrMore(HomeView) /\ StdOnTwoOrMore(WidgetView)
\* C14: betacf executes its loop body at most 200 times for any a, b and x,
\* NaN and the arguments for which the convergence test never succeeds
\* included, and logGamma recurses at most once: for z < 0.5 its argument
\* 1 - z is not below 0.5.
C14_Terminates ==
  /\ call.fn = "betacf" => betacfRun(call.a, call.b, call.x).iter <= 200
  /\ call.fn = "logGamma" =>
       /\ logGammaRun(call.z).depth <= 1
       /\ Lt[call.z, Half] =>
            /\ ~Lt[Sub[One, call.z], Half]
            /\ logGammaRun(call.z).depth = 1

\* betacf has run into its cap of rounds on numbers, its test never true
C14_Witness ==
  /\ call.fn = "betacf"
  /\ IsFin(call.a) /\ IsFin(call.b) /\ IsFin(call.x)
  /\ betacfRun(call.a, call.b, call.x).iter = 200
\* the vectors a and b of a result come, element by element and in row
\* order, from the rows where the cells of both columns are numeric
RowAligned(o, aCol, bCol) ==
  /\ Len(o.a) = Len(o.b)
  /\ Len(o.from) = Len(o.a)
  /\ \A j \in 1..Len(o.from) :
       /\ o.from[j] \in 1..Len(rows)
       /\ j > 1 => o.from[j - 1] < o.from[j]
       /\ o.a[j] = Number(Cell(rows[o.from[j]], aCol))
       /\ o.b[j] = Number(Cell(rows[o.from[j]], bCol))
  /\ Range(o.from) = {i \in 1..Len(rows) : /\ NotNull(Cell(rows[i], aCol))
                                           /\ NotNull(Cell(rows[i], bCol))}

\* C15: in paired and in correlation mode, the two vectors handed to
\* pairedTTest and pearsonCorrelation have equal length, their i-th elements
\* come from the same row, in row order, and a row contributes to both when
\* both of its cells are numeric and to neither otherwise.
C15_RowAligned ==
  /\ output.kind = "paired" => RowAligned(output, pairedA, pairedB)
  /\ output.kind = "correlation" => RowAligned(output, corrX, corrY)

\* a paired test has run on a file with a row that lacks one of the cells
C15_Witness ==
  /\ output.kind = "paired"
  /\ Len(output.a) < Len(rows)
  /\ \E i \in 1..Len(rows) : /\ ~NotNull(Cell(rows[i], pairedA))
                             /\ NotNull(Cell(rows[i], pairedB))
\* the inputs of the selected mode pass its size and parameter checks
ChecksPass ==
  /\ rows # <<>>
  /\ analysis = "paired" => Complete(pairedA, pairedB) >= 3
  /\ analysis = "onesample" =>
       Complete(oneVar, oneVar) >= 3 /\ IsFinite(Number(oneMu))
  /\ analysis = "independent" =>
       /\ groupVar # <<>> /\ groupA # <<>> /\ groupB # <<>> /\ groupA # groupB
       /\ InGroup(groupA) >= 2 /\ InGroup(groupB) >= 2
  /\ analysis = "correlation" => Complete(corrX, corrY) >= 4

\* a statistic of the result is not finite
Degenerate(o) ==
  \/ ~IsFinite(o.res.t) \/ ~IsFinite(o.res.df) \/ ~IsFinite(o.res.p)
  \/ o.kind = "paired" /\ ~IsFinite(o.res.d)
  \/ o.kind = "onesample" /\ ~IsFinite(o.res.d)
  \/ o.kind = "independent" /\ ~IsFinite(o.res.g)
  \/ o.kind = "correlation" /\ ~IsFinite(o.res.r)

\* C16: when the inputs pass the size and parameter checks, the output has
\* the kind of the selected mode and carries a sentence, also when the
\* computation is degenerate (a statistic that is not finite): it is never
\* an error.
C16_DegenerateDisplayed ==
  ChecksPass => LET o == output IN o.kind = analysis /\ o.apa # ""

\* a correlation sentence has been produced from a degenerate computation
C16_Witness ==
  ChecksPass /\ analysis = "correlation" /\ output.kind = "correlation"
    /\ Degenerate(output)
\* C17: over every interleaving of file selections, onload callbacks and
\* reset, loaded rows never come with a stale error: whenever rows is not
\* empty, err is the empty string.
C17_NoStaleError == rows # <<>> => err = ""
\* C18: after the group auto-selection effect has run for a group variable
\* with at least two levels, groupA and groupB are both members of levels,
\* whatever file loads, group-variable changes and manual choices came
\* before; and when the effect runs for new levels that contain neither
\* previous selection, it selects levels[0] and levels[1], which differ.
C18_GroupsAreLevels ==
  [][LET old == levels(rows, groupVar)
         lv == levels(rows', groupVar')
     IN /\ Len(lv) >= 2 => groupA' \in Range(lv) /\ groupB' \in Range(lv)
        /\ (/\ lv # old /\ Len(lv) >= 2
            /\ groupA \notin Range(lv) /\ groupB \notin Range(lv))
             => groupA' = lv[1] /\ groupB' = lv[2] /\ groupA' # groupB']_vars

\* the effect has replaced both selections after a change of group variable
C18_Witness ==
  /\ groupVar = ColHand
  /\ levels(rows, groupVar) = << <<"l">>, <<"r">> >>
  /\ groupA = <<"l">> /\ groupB = <<"r">>
====
